---- MODULE Spec2Model ----
(***************************************************************************)
(* Ghostloader (src/src/index.js): the preloading engine as a state        *)
(* machine.  One instance of the class, the page it runs on, the browser   *)
(* facilities it uses (network information, Cache API, timers) and the     *)
(* asynchronous calls in flight, each at the await it is suspended on.     *)
(***************************************************************************)
EXTENDS Integers, Sequences, FiniteSets, Bags, TLC

VARIABLES
    config,          \* this.config: the options merged over the defaults
    env,             \* the browser: which facilities exist
    page,            \* the document: the elements matching config.selector
    hints,           \* the document: its SSR hints (meta tags, JSON-LD entries)
    now,             \* Date.now()
    netType,         \* navigator.connection.effectiveType (live)
    saveData,        \* navigator.connection.saveData (live)
    queue,           \* this.queue
    processing,      \* this.processing
    processed,       \* this.processed
    activeRequests,  \* this.activeRequests
    isInitialized,   \* this.isInitialized
    isPaused,        \* this.isPaused
    dataUsed,        \* this.dataUsed
    connectionInfo,  \* this.connectionInfo is set (not null)
    cacheAPI,        \* this.cacheAPI is set (not null)
    cache,           \* this.cache: the memory Map, in insertion order
    store,           \* the Cache API store 'ghostloader-cache-v1', in insertion order
    fetches,         \* the bag of calls in flight: a drain pass at its delay, or
                     \* fetchAndCache at one of its awaits
    timers,          \* pending setTimeout(() => processQueue(), 10) callbacks
    starts,          \* start() calls in progress, each at its await
    listeners,       \* how many times the hover and click listeners were attached
    hoverTimeouts,   \* this.hoverTimeouts: the elements with a timeout id in the Map
    hoverTimers,     \* the bag of elements whose boost timers are pending in the browser
    clicking,        \* the runs of the click listener, each at its await or done, with
                     \* what it did to the event, the document, the history and the location
    ssrHintsReceived,  \* this.ssrHintsReceived: the hint URLs as written in the document
    broadcastChannel,  \* this.broadcastChannel: "none", or the channel "open" or "closed"
    posted,          \* the messages posted on the channel
    clears,          \* clearCache() calls in progress on the Cache API
    rebuilds,        \* pending setTimeout callbacks of the instant transition
    stats,           \* this.stats
    hist             \* history: how often each URL was dispatched (in all, and since the
                     \* last clearCache()), how often the public calls were made, and
                     \* the URLs of the cache-update messages received

vars == <<clicking, hoverTimers, hints, ssrHintsReceived, broadcastChannel, posted, config, env, page, now, netType, saveData, queue, processing, processed,
          activeRequests, isInitialized, isPaused, dataUsed, connectionInfo, cacheAPI,
          cache, store, fetches, timers, starts, listeners, hoverTimeouts, clears, rebuilds,
          stats, hist>>

----------------------------------------------------------------------------
(* Bounds of the model. *)

\* config.maxConcurrent of the general specification
MainMaxConcurrent == 2
\* config.cacheMaxSize of the general specification
MainCacheMaxSize == 2
\* config.dataLimit of the general specification
MainDataLimit == 3
\* config.cacheExpiration of the general specification, in clock ticks
MainCacheExpiration == 1
\* the clock stops advancing here
MaxNow == 2
\* a URL is dispatched at most this many times in one behaviour
\* start() is called at most this many times
MaxStarts == 2
\* clearCache() is called at most this many times
MaxClears == 1
\* at most this many clicks lead to an instant transition
MaxClicks == 1

\* the scenario page: its number of links, and its config.maxConcurrent
ScenarioLinks == 5
ScenarioMaxConcurrent == 3
\* the number of links of the page with SSR hints
HintLinks == 3
BuildMaxConcurrent == 2
BuildDataLimit == 4
EvictLen == 12
EvictStamps == 1

\* the page, config.maxConcurrent and config.cacheMaxSize where the store starts full
StoreLinks == 3
StoreMaxConcurrent == 3
StoreCacheMaxSize == 1

\* the priority of a queue item made from a high-priority meta hint
HighHintPriority == -1000

\* enforceCacheLimit removes this many entries more than the excess
EvictExtra == 10
\* the priority processSSRHints gives a 'high' meta hint

\* response.headers.get('content-length') is null
NoLen == -1
\* the content-length values a response may carry
Lens == {NoLen, 2}

NetTypes == {"2g", "3g", "4g"}

----------------------------------------------------------------------------
(* Sequences *)

Range(s) == {s[i] : i \in 1..Len(s)}

\* Array.prototype.slice(0, n)
Take(s, n) == SubSeq(s, 1, IF n < 0 THEN 0 ELSE IF n > Len(s) THEN Len(s) ELSE n)

\* the array without the element at index i
RemoveAt(s, i) == SubSeq(s, 1, i - 1) \o SubSeq(s, i + 1, Len(s))

\* Array.prototype.findIndex, 1-based; 0 when there is none
RECURSIVE FindIndexFrom(_, _, _)
FindIndexFrom(s, url, i) ==
    IF i > Len(s) THEN 0
    ELSE IF s[i].url = url THEN i
    ELSE FindIndexFrom(s, url, i + 1)

FindIndex(s, url) == FindIndexFrom(s, url, 1)

----------------------------------------------------------------------------
(* URLs, elements, queue items *)

\* what normalizeUrl returns when new URL() throws
NullUrl == [origin |-> "null", path |-> ""]

\* a raw href: an origin, a path and a fragment ("" when it has none)
Href(o, p, h) == [origin |-> o, path |-> p, hash |-> h]

\* normalizeUrl: the absolute URL without its fragment, null when it does not parse
NormalizeUrl(raw) ==
    IF raw.origin = "invalid" THEN NullUrl
    ELSE [origin |-> raw.origin, path |-> raw.path]

\* the paths of the pages' links, in page order
LinkPaths == <<"a", "b", "c", "d", "e", "g", "h">>

Paths == Range(LinkPaths) \cup {"f.pdf"}

Urls == [origin : {"self", "other"}, path : Paths] \cup {NullUrl}

\* window.innerHeight
InnerHeight == 100

\* an element matching config.selector: href, bounding rectangle, and whether it
\* matches one of config.excludeSelectors
Link(raw, top, bottom, sel) == [href |-> raw, top |-> top, bottom |-> bottom, sel |-> sel]

Item(url, priority) == [url |-> url, priority |-> priority]

\* excludePatterns: the URL ends in a document or image extension
MatchesExcludePattern(url) == url.path \in {"f.pdf"}

\* shouldExclude(element, url)
ShouldExclude(el, url) == el.sel \/ MatchesExcludePattern(url)

\* shouldPreload(url)
ShouldPreload(url) ==
    IF url = NullUrl THEN FALSE
    ELSE IF config.cacheMode = "local" THEN url.origin = "self"
    ELSE TRUE

----------------------------------------------------------------------------
(* Connection monitor *)

\* the budget test with > for >=
WithinDataLimitsOfStrict(info, saver, used, limit) ==
    IF info /\ saver THEN FALSE
    ELSE IF used > limit THEN FALSE
    ELSE TRUE

\* withinDataLimits() on the given connection object, data-saver flag, bytes and limit
WithinDataLimitsOf(info, saver, used, limit) ==
    IF info /\ saver THEN FALSE
    ELSE IF used >= limit THEN FALSE
    ELSE TRUE

WithinDataLimits == WithinDataLimitsOf(connectionInfo, saveData, dataUsed, config.dataLimit)

\* the connectionLimits table; 0 where the table has no entry
ConnectionLimit(type, maxConcurrent) ==
    CASE type \in {"slow-2g", "2g"} -> 1
      [] type = "3g" -> 2
      [] type \in {"4g", "5g"} -> maxConcurrent
      [] OTHER -> 0

\* getEffectiveMaxConcurrent() for the given settings
EffectiveMaxConcurrentOf(throttle, info, type, maxConcurrent) ==
    IF ~throttle \/ ~info THEN maxConcurrent
    ELSE IF ConnectionLimit(type, maxConcurrent) # 0 THEN ConnectionLimit(type, maxConcurrent)
    ELSE maxConcurrent

GetEffectiveMaxConcurrent ==
    EffectiveMaxConcurrentOf(config.bandwidthThrottle, connectionInfo, netType,
                             config.maxConcurrent)

----------------------------------------------------------------------------
(* Cache manager.  A backend is a sequence of entries [url, ts] in insertion order. *)

Entry(url, ts) == [url |-> url, ts |-> ts]

CacheHas(c, url) == FindIndex(c, url) # 0

CacheGet(c, url) == c[FindIndex(c, url)]

\* Map.prototype.delete / Cache.delete
CacheDelete(c, url) == SelectSeq(c, LAMBDA e : e.url # url)

CacheDeleteAll(c, urls) == SelectSeq(c, LAMBDA e : e.url \notin urls)

\* Map.prototype.set: an existing key keeps its place
MapSet(c, url, ts) ==
    IF CacheHas(c, url)
    THEN [i \in 1..Len(c) |-> IF c[i].url = url THEN Entry(url, ts) ELSE c[i]]
    ELSE Append(c, Entry(url, ts))

\* Cache.put: the existing entry is removed and the new one added last
CachePut(c, url, ts) == Append(CacheDelete(c, url), Entry(url, ts))

\* the age test with one unit of slack
IsCacheExpiredLate(entry, t) == t - entry.ts > config.cacheExpiration + 1

\* isCacheExpired(response) at clock t
IsCacheExpired(entry, t) == t - entry.ts > config.cacheExpiration

\* Array.prototype.sort((a, b) => a[1].timestamp - b[1].timestamp): stable
RECURSIVE InsertByTs(_, _)
InsertByTs(sorted, e) ==
    IF sorted = <<>> THEN <<e>>
    ELSE IF sorted[Len(sorted)].ts <= e.ts THEN Append(sorted, e)
    ELSE Append(InsertByTs(SubSeq(sorted, 1, Len(sorted) - 1), e), sorted[Len(sorted)])

RECURSIVE SortByTs(_)
SortByTs(c) ==
    IF c = <<>> THEN <<>>
    ELSE InsertByTs(SortByTs(SubSeq(c, 1, Len(c) - 1)), c[Len(c)])

\* the entries enforceCacheLimit removes from `keys` (already in eviction order)
ToRemove(keys, maxSize) ==
    IF Len(keys) >= maxSize THEN Take(keys, Len(keys) - maxSize + EvictExtra) ELSE <<>>

\* the eviction in insertion order, without the sort by timestamp
EnforceMemoryLimitFifo(c, maxSize) ==
    CacheDeleteAll(c, {e.url : e \in Range(ToRemove(c, maxSize))})

\* enforceCacheLimit() on the memory Map
EnforceMemoryLimit(c, maxSize) ==
    CacheDeleteAll(c, {e.url : e \in Range(ToRemove(SortByTs(c), maxSize))})

----------------------------------------------------------------------------
(* Priority queue builder *)

\* rect.top < window.innerHeight && rect.bottom > 0
IsVisible(el) == el.top < InnerHeight /\ el.bottom > 0

\* the test without its look at the processing set
EligibleWhileProcessing(el) ==
    LET href == NormalizeUrl(el.href) IN
    /\ href # NullUrl
    /\ href \notin processed
    /\ ~ShouldExclude(el, href)
    /\ ShouldPreload(href)
    /\ ~(config.connectionAware /\ ~WithinDataLimits)
    /\ IsVisible(el)

\* the test of buildQueue's forEach body: the element yields a queue item
Eligible(el) ==
    LET href == NormalizeUrl(el.href) IN
    /\ href # NullUrl
    /\ href \notin processed
    /\ href \notin processing
    /\ ~ShouldExclude(el, href)
    /\ ShouldPreload(href)
    /\ ~(config.connectionAware /\ ~WithinDataLimits)
    /\ IsVisible(el)

\* linkData after the forEach: the eligible elements in document order
RECURSIVE LinkData(_)
LinkData(els) ==
    IF els = <<>> THEN <<>>
    ELSE LET el == els[Len(els)]
             rest == LinkData(SubSeq(els, 1, Len(els) - 1))
         IN  IF Eligible(el) THEN Append(rest, Item(NormalizeUrl(el.href), el.top))
             ELSE rest

\* the insertion that does not compare: the item goes in front
InsertFirst(sorted, it) == <<it>> \o sorted

\* linkData.sort((a, b) => a.priority - b.priority): stable
RECURSIVE InsertByPriority(_, _)
InsertByPriority(sorted, it) ==
    IF sorted = <<>> THEN <<it>>
    ELSE IF sorted[Len(sorted)].priority <= it.priority THEN Append(sorted, it)
    ELSE Append(InsertByPriority(SubSeq(sorted, 1, Len(sorted) - 1), it),
                sorted[Len(sorted)])

RECURSIVE SortByPriority(_)
SortByPriority(s) ==
    IF s = <<>> THEN <<>>
    ELSE InsertByPriority(SortByPriority(SubSeq(s, 1, Len(s) - 1)), s[Len(s)])

\* buildQueue(): the value it assigns to this.queue
BuildQueue == SortByPriority(LinkData(page))

----------------------------------------------------------------------------
(* Hover booster *)

\* the relocation without its splice: the item is copied to the front
BoostPriorityNoSplice(q, url) ==
    LET index == FindIndex(q, url) IN
    IF index > 1 THEN <<q[index]>> \o q ELSE q

\* boostPriority(url): the queue it leaves
BoostPriority(q, url) ==
    LET index == FindIndex(q, url) IN
    IF index > 1 THEN <<q[index]>> \o RemoveAt(q, index) ELSE q

\* the test with index >= 0 for index > 0
BoostDrainsAtHead(q, url) == FindIndex(q, url) > 0

\* boostPriority(url) goes on to call processQueue()
BoostDrains(q, url) == FindIndex(q, url) > 1

----------------------------------------------------------------------------
(* Fetch scheduler *)

\* a call in flight for `url`, suspended at `stage`
Fetch(url, stage) == [url |-> url, stage |-> stage, len |-> NoLen, ts |-> 0, keys |-> <<>>]

\* the bag B with one more f, with one f less
With(B, f) == B (+) SetToBag({f})

Without(B, f) == B (-) SetToBag({f})

\* the part of the state a drain pass works on
DrainState ==
    [q |-> queue, processing |-> processing, active |-> activeRequests,
     fetches |-> fetches, stats |-> stats, hist |-> hist]

\* the call without its count in totalRequests
CallFetchAndCacheUncounted(S, url) ==
    [S EXCEPT !.fetches = With(@, Fetch(url, "lookup"))]

\* fetchAndCache(item) up to its first await
CallFetchAndCache(S, url) ==
    [S EXCEPT !.fetches = With(@, Fetch(url, "lookup")),
              !.stats.totalRequests = @ + 1]

\* the slot test with <= for <
HasSlotOffByOne(S) == S.active <= GetEffectiveMaxConcurrent

\* the second operand of the while condition: a request slot is free
HasSlot(S) == S.active < GetEffectiveMaxConcurrent

\* the budget test that only looks at the data saver
BudgetExhaustedSaverOnly == config.connectionAware /\ connectionInfo /\ saveData

\* the data budget gate of the loop: connection-aware and out of budget
BudgetExhausted == config.connectionAware /\ ~WithinDataLimits

\* the skip test that only looks at the requests in flight
AlreadyHandledInFlightOnly(S, url) == url \in S.processing

\* the item is skipped: its URL is in flight or done
AlreadyHandled(S, url) == url \in S.processing \/ url \in processed

\* the dispatch without its activeRequests++
DispatchUncounted(S, url) ==
    [S EXCEPT !.processing = @ \cup {url},
              !.hist.dispatched[url] = @ + 1,
              !.hist.sinceClear[url] = @ + 1]

\* the item is marked as processing and counted
Dispatch(S, url) ==
    [S EXCEPT !.processing = @ \cup {url},
              !.active = @ + 1,
              !.hist.dispatched[url] = @ + 1,
              !.hist.sinceClear[url] = @ + 1]

\* processQueue() from the top of its while loop up to its next await or its return
RECURSIVE ProcessQueue(_)
ProcessQueue(S) ==
    IF Len(S.q) > 0 /\ HasSlot(S)
    THEN LET item == Head(S.q)
             S1 == [S EXCEPT !.q = Tail(S.q)]
         IN  IF AlreadyHandled(S, item.url)
             THEN ProcessQueue(S1)
             ELSE IF BudgetExhausted
             THEN S1
             ELSE LET S2 == Dispatch(S1, item.url)
                  IN  IF config.betweenDelay > 0 /\ S2.active > 1
                      THEN [S2 EXCEPT !.fetches = With(@, Fetch(item.url, "delay"))]
                      ELSE ProcessQueue(CallFetchAndCache(S2, item.url))
    ELSE S

\* the state after a drain pass ran from S
Drained(S) ==
    /\ queue' = S.q
    /\ processing' = S.processing
    /\ activeRequests' = S.active
    /\ fetches' = S.fetches
    /\ stats' = S.stats
    /\ hist' = S.hist

----------------------------------------------------------------------------
(* Initial states *)

\* the constructor's defaults, with the given concurrency, data limit and cache size
ConfigWith(maxConcurrent, dataLimit, cacheMaxSize) ==
    [cacheMode |-> "local", instantHover |-> TRUE, maxConcurrent |-> maxConcurrent,
     initialDelay |-> 1000, betweenDelay |-> 100, connectionAware |-> TRUE,
     dataLimit |-> dataLimit, bandwidthThrottle |-> TRUE,
     cacheMaxSize |-> cacheMaxSize, cacheExpiration |-> MainCacheExpiration,
     crossTabCache |-> TRUE, instantTransitions |-> TRUE, ssrHints |-> TRUE]

DefaultConfig == ConfigWith(MainMaxConcurrent, MainDataLimit, MainCacheMaxSize)

SameOrigin(p, top) == Link(Href("self", p, ""), top, top + 10, FALSE)

\* three on-screen same-origin links, a link to another origin and a link to a PDF
PlainPage ==
    <<SameOrigin("a", 10), SameOrigin("b", 20), SameOrigin("c", 30),
      Link(Href("other", "a", ""), 40, 50, FALSE), SameOrigin("f.pdf", 50)>>

\* the same with a second link to the first URL further down
MainPage == Append(PlainPage, SameOrigin("a", 60))

\* n on-screen same-origin links to distinct URLs, none excluded
LinksPage(n) == [i \in 1..n |-> SameOrigin(LinkPaths[i], 10 * i)]

\* four links on one line, a link whose href does not parse, links below and above the
\* viewport, to another origin, to a PDF, under an excluded selector, and a
\* second link to the first URL with a fragment
BuildPage ==
    <<SameOrigin("a", 20), Link(Href("invalid", "a", ""), 5, 15, FALSE),
      SameOrigin("b", 10), SameOrigin("c", 10), SameOrigin("e", 10), SameOrigin("h", 10),
      SameOrigin("d", InnerHeight + 20), Link(Href("self", "g", ""), -30, -20, FALSE),
      Link(Href("other", "a", ""), 15, 25, FALSE), SameOrigin("f.pdf", 15),
      Link(Href("self", "b", ""), 15, 25, TRUE), Link(Href("self", "a", "top"), 20, 30, FALSE)>>

\* three links and a fourth, under an excluded selector, to the first one's URL
ClickPage ==
    <<SameOrigin("a", 10), SameOrigin("b", 20), SameOrigin("c", 30),
      Link(Href("self", "a", ""), 40, 50, TRUE)>>

\* the state the constructor leaves, on the given page with the given options,
\* but for the memory Map, which holds the entries c
Filled(cfg, pg, c) ==
    /\ config = cfg
    /\ page = pg
    /\ now = 0
    /\ queue = <<>>
    /\ processing = {}
    /\ processed = {}
    /\ activeRequests = 0
    /\ isInitialized = FALSE
    /\ isPaused = FALSE
    /\ dataUsed = 0
    /\ connectionInfo = FALSE
    /\ cacheAPI = FALSE
    /\ cache = c
    /\ fetches = EmptyBag
    /\ timers = 0
    /\ starts = <<>>
    /\ listeners = 0
    /\ hoverTimeouts = {}
    /\ hoverTimers = EmptyBag
    /\ clicking = <<>>
    /\ ssrHintsReceived = {}
    /\ broadcastChannel = "none"
    /\ posted = {}
    /\ clears = <<>>
    /\ rebuilds = 0
    /\ stats = [totalRequests |-> 0, cacheHits |-> 0, cacheMisses |-> 0,
                bytesTransferred |-> 0]
    /\ hist = [dispatched |-> [u \in Urls |-> 0], sinceClear |-> [u \in Urls |-> 0],
               starts |-> 0, clicks |-> 0, clearCalls |-> 0, destroyed |-> FALSE, updated |-> {}]

\* the state the constructor leaves, on the given page with the given options
Constructed(cfg, pg) == Filled(cfg, pg, <<>>)

----------------------------------------------------------------------------
(* SSR hints *)

\* a document without hints
NoHints == [meta |-> <<>>, json |-> <<>>]

\* <meta name="ghostloader-hint" content=raw data-priority=priority>
MetaHint(raw, priority) == [url |-> raw, priority |-> priority]

\* an entry of ghostloaderHints in a JSON-LD script
JsonHint(raw, priority) == [url |-> raw, priority |-> priority]

\* the forEach over the meta hints `ms`, from the queue and the set in H
RECURSIVE MetaHintsDone(_, _)
MetaHintsDone(H, ms) ==
    IF ms = <<>> THEN H
    ELSE LET m == Head(ms)
             H1 == IF m.url \notin H.received
                   THEN [q |-> IF m.priority = "high"
                               THEN <<Item(NormalizeUrl(m.url), HighHintPriority)>> \o H.q
                               ELSE H.q,
                         received |-> H.received \cup {m.url}]
                   ELSE H
         IN  MetaHintsDone(H1, Tail(ms))

\* the forEach over the JSON-LD hints `js`
RECURSIVE JsonHintsDone(_, _)
JsonHintsDone(H, js) ==
    IF js = <<>> THEN H
    ELSE LET j == Head(js)
             H1 == IF j.url \notin H.received
                   THEN [q |-> <<Item(NormalizeUrl(j.url), j.priority)>> \o H.q,
                         received |-> H.received \cup {j.url}]
                   ELSE H
         IN  JsonHintsDone(H1, Tail(js))

\* processSSRHints(): the queue and ssrHintsReceived it leaves
ProcessSSRHints(q, received) ==
    JsonHintsDone(MetaHintsDone([q |-> q, received |-> received], hints.meta), hints.json)

----------------------------------------------------------------------------
(* start() *)

\* detectConnection(): this.connectionInfo after it
DetectConnection == connectionInfo \/ env.hasConnection

\* setupCrossTabCache(): this.broadcastChannel after it
SetupCrossTabCache ==
    IF config.crossTabCache /\ env.hasBroadcast THEN "open" ELSE broadcastChannel

\* start() from its top to its first await
CallStart ==
    /\ ~isInitialized
    /\ hist' = [hist EXCEPT !.starts = @ + 1]
    /\ IF config.connectionAware
       THEN /\ connectionInfo' = DetectConnection
            /\ starts' = Append(starts, "detect")
            /\ UNCHANGED broadcastChannel
       ELSE /\ starts' = Append(starts, "cache")
            /\ broadcastChannel' = SetupCrossTabCache
            /\ UNCHANGED connectionInfo
    /\ UNCHANGED <<clicking, hoverTimers, hints, ssrHintsReceived, posted,
                   config, env, page, now, netType, saveData, queue, processing, processed,
                   activeRequests, isInitialized, isPaused, dataUsed, cacheAPI, cache,
                   store, fetches, timers, listeners, hoverTimeouts, clears, rebuilds,
                   stats>>

\* Ghostloader.init(options): the first start()
StaticInit ==
    /\ hist.starts = 0
    /\ CallStart

\* start() called again on the instance
StartAgain ==
    /\ hist.starts >= 1
    /\ hist.starts < MaxStarts
    /\ CallStart

\* start() resumes after await this.detectConnection() and runs to await initializeCache()
StartDetected(i) ==
    /\ starts[i] = "detect"
    /\ starts' = [starts EXCEPT ![i] = "cache"]
    /\ broadcastChannel' = SetupCrossTabCache
    /\ UNCHANGED <<clicking, hoverTimers, hints, ssrHintsReceived, posted,
                   config, env, page, now, netType, saveData, queue, processing, processed,
                   activeRequests, isInitialized, isPaused, dataUsed, connectionInfo,
                   cacheAPI, cache, store, fetches, timers, listeners, hoverTimeouts,
                   clears, rebuilds, stats, hist>>

\* the rest of start() from buildQueue() on
StartBody(i) ==
    /\ starts' = RemoveAt(starts, i)
    /\ listeners' = IF config.instantHover \/ config.instantTransitions
                     THEN listeners + 1 ELSE listeners
    /\ isInitialized' = TRUE
    /\ Drained(ProcessQueue([DrainState EXCEPT !.q = BuildQueue]))

\* the queue and ssrHintsReceived after the hint step of start()
Hinted ==
    IF config.ssrHints THEN ProcessSSRHints(queue, ssrHintsReceived)
    ELSE [q |-> queue, received |-> ssrHintsReceived]

\* start() resumes after await this.initializeCache(), takes in the SSR hints, and
\* waits the initial delay or goes straight on when there is none
StartCacheReady(i) ==
    /\ starts[i] = "cache"
    /\ cacheAPI' = (cacheAPI \/ env.hasCaches)
    /\ ssrHintsReceived' = Hinted.received
    /\ IF config.initialDelay > 0
       THEN /\ starts' = [starts EXCEPT ![i] = "delay"]
            /\ queue' = Hinted.q
            /\ UNCHANGED <<processing, activeRequests, fetches, stats, hist,
                           listeners, isInitialized>>
       ELSE StartBody(i)
    /\ UNCHANGED <<clicking, hoverTimers, hints, broadcastChannel, posted,
                   config, env, page, now, netType, saveData, processed, isPaused,
                   dataUsed, connectionInfo, cache, store, timers, hoverTimeouts, clears,
                   rebuilds>>

\* start() resumes after await this.delay(initialDelay)
StartDelayed(i) ==
    /\ starts[i] = "delay"
    /\ StartBody(i)
    /\ UNCHANGED <<clicking, hoverTimers, hints, ssrHintsReceived, broadcastChannel, posted,
                   config, env, page, now, netType, saveData, processed, isPaused,
                   dataUsed, connectionInfo, cacheAPI, cache, store, timers,
                   hoverTimeouts, clears, rebuilds>>

\* a message on the channel 'ghostloader-cache'
Message(type, url) == [type |-> type, url |-> url]

\* the messages posted after this.broadcastChannel.postMessage(msg), where the
\* code tests this.broadcastChannel first; posting on a closed channel throws
Post(msg) == IF broadcastChannel = "open" THEN posted \cup {msg} ELSE posted

----------------------------------------------------------------------------
(* processQueue() and fetchAndCache() *)

\* the cache backend in use
Backend == IF cacheAPI THEN store ELSE cache

\* the callback without its processed.add
FinallyNotProcessed(f, S) ==
    /\ fetches' = Without(S.fetches, f)
    /\ processing' = processing \ {f.url}
    /\ activeRequests' = activeRequests - 1
    /\ timers' = IF Len(queue) > 0 THEN timers + 1 ELSE timers
    /\ stats' = S.stats
    /\ UNCHANGED <<queue, hist, processed>>

\* the callback that sets the drain timer without looking at the queue
FinallyAlwaysTimer(f, S) ==
    /\ fetches' = Without(S.fetches, f)
    /\ processing' = processing \ {f.url}
    /\ processed' = processed \cup {f.url}
    /\ activeRequests' = activeRequests - 1
    /\ timers' = timers + 1
    /\ stats' = S.stats
    /\ UNCHANGED <<queue, hist>>

\* the callback without its setTimeout
FinallyNoTimer(f, S) ==
    /\ fetches' = Without(S.fetches, f)
    /\ processing' = processing \ {f.url}
    /\ processed' = processed \cup {f.url}
    /\ activeRequests' = activeRequests - 1
    /\ timers' = timers
    /\ stats' = S.stats
    /\ UNCHANGED <<queue, hist>>

\* the .finally() callback of processQueue for the call f, S being the state
\* fetchAndCache left
Finally(f, S) ==
    /\ fetches' = Without(S.fetches, f)
    /\ processing' = processing \ {f.url}
    /\ processed' = processed \cup {f.url}
    /\ activeRequests' = activeRequests - 1
    /\ timers' = IF Len(queue) > 0 THEN timers + 1 ELSE timers
    /\ stats' = S.stats
    /\ UNCHANGED <<queue, hist>>

\* the call f moves on to its next await
Moved(f, g) == fetches' = With(Without(fetches, f), g)

\* a drain pass resumes after await this.delay(betweenDelay): it calls fetchAndCache
\* and goes round its loop
DelayDone(f) ==
    /\ f.stage = "delay"
    /\ Drained(ProcessQueue(CallFetchAndCache(
           [DrainState EXCEPT !.fetches = Without(fetches, f)], f.url)))
    /\ UNCHANGED <<clicking, hoverTimers, hints, ssrHintsReceived, broadcastChannel, posted,
                   config, env, page, now, netType, saveData, processed, isInitialized,
                   isPaused, dataUsed, connectionInfo, cacheAPI, cache, store, timers,
                   starts, listeners, hoverTimeouts, clears, rebuilds>>

\* setTimeout(() => this.processQueue(), 10) fires
TimerFire ==
    /\ timers > 0
    /\ timers' = timers - 1
    /\ Drained(ProcessQueue(DrainState))
    /\ UNCHANGED <<clicking, hoverTimers, hints, ssrHintsReceived, broadcastChannel, posted,
                   config, env, page, now, netType, saveData, processed, isInitialized,
                   isPaused, dataUsed, connectionInfo, cacheAPI, cache, store, starts,
                   listeners, hoverTimeouts, clears, rebuilds>>

\* getCachedResponse(url) finds an entry that isCacheExpired does not reject
FreshInCache(url) ==
    /\ CacheHas(Backend, url)
    /\ ~IsCacheExpired(CacheGet(Backend, url), now)

\* the lookup without the return on a hit: the hit is counted and the fetch goes on
LookupNoReturn(f) ==
    /\ f.stage = "lookup"
    /\ Moved(f, [f EXCEPT !.stage = "network"])
    /\ stats' = [stats EXCEPT !.cacheHits = @ + (IF FreshInCache(f.url) THEN 1 ELSE 0)]
    /\ UNCHANGED <<queue, processing, processed, activeRequests, timers, hist>>
    /\ UNCHANGED <<clicking, hoverTimers, hints, ssrHintsReceived, broadcastChannel, posted,
                   config, env, page, now, netType, saveData, isInitialized, isPaused,
                   dataUsed, connectionInfo, cacheAPI, cache, store, starts, listeners,
                   hoverTimeouts, clears, rebuilds>>

\* fetchAndCache resumes after await this.getCachedResponse(url)
Lookup(f) ==
    /\ f.stage = "lookup"
    /\ IF FreshInCache(f.url)
       THEN Finally(f, [DrainState EXCEPT !.stats.cacheHits = @ + 1])
       ELSE /\ Moved(f, [f EXCEPT !.stage = "network"])
            /\ UNCHANGED <<queue, processing, processed, activeRequests, timers, stats,
                           hist>>
    /\ UNCHANGED <<clicking, hoverTimers, hints, ssrHintsReceived, broadcastChannel, posted,
                   config, env, page, now, netType, saveData, isInitialized, isPaused,
                   dataUsed, connectionInfo, cacheAPI, cache, store, starts, listeners,
                   hoverTimeouts, clears, rebuilds>>

\* await fetch(url) resolves with an OK response carrying content-length `len`:
\* dataUsed is updated and storeInCache runs to its first await
NetworkOk(f, len) ==
    /\ f.stage = "network"
    /\ dataUsed' = IF len # NoLen THEN dataUsed + len ELSE dataUsed
    /\ IF cacheAPI
       THEN /\ Moved(f, [f EXCEPT !.stage = "keys", !.len = len, !.ts = now])
            /\ UNCHANGED cache
       ELSE /\ Moved(f, [f EXCEPT !.stage = "text", !.len = len, !.ts = now])
            /\ cache' = EnforceMemoryLimit(cache, config.cacheMaxSize)
    /\ UNCHANGED <<clicking, hoverTimers, hints, ssrHintsReceived, broadcastChannel, posted,
                   config, env, page, now, netType, saveData, queue, processing, processed,
                   activeRequests, isInitialized, isPaused, connectionInfo, cacheAPI,
                   store, timers, starts, listeners, hoverTimeouts, clears, rebuilds,
                   stats, hist>>

\* await fetch(url) resolves with a non-OK status, or rejects (network error, abort
\* after requestTimeout)
NetworkFail(f) ==
    /\ f.stage = "network"
    /\ Finally(f, DrainState)
    /\ UNCHANGED <<clicking, hoverTimers, hints, ssrHintsReceived, broadcastChannel, posted,
                   config, env, page, now, netType, saveData, isInitialized, isPaused,
                   dataUsed, connectionInfo, cacheAPI, cache, store, starts, listeners,
                   hoverTimeouts, clears, rebuilds>>

\* enforceCacheLimit resumes after await this.cacheAPI.keys() and issues the deletes
StoreKeys(f) ==
    /\ f.stage = "keys"
    /\ IF Len(store) >= config.cacheMaxSize
       THEN Moved(f, [f EXCEPT !.stage = "delete",
                               !.keys = ToRemove(store, config.cacheMaxSize)])
       ELSE Moved(f, [f EXCEPT !.stage = "put"])
    /\ UNCHANGED <<clicking, hoverTimers, hints, ssrHintsReceived, broadcastChannel, posted,
                   config, env, page, now, netType, saveData, queue, processing, processed,
                   activeRequests, isInitialized, isPaused, dataUsed, connectionInfo,
                   cacheAPI, cache, store, timers, starts, listeners, hoverTimeouts,
                   clears, rebuilds, stats, hist>>

\* await Promise.all(toRemove.map(... delete)) resolves; storeInCache goes on to put
StoreDelete(f) ==
    /\ f.stage = "delete"
    /\ store' = CacheDeleteAll(store, {e.url : e \in Range(f.keys)})
    /\ Moved(f, [f EXCEPT !.stage = "put", !.keys = <<>>])
    /\ UNCHANGED <<clicking, hoverTimers, hints, ssrHintsReceived, broadcastChannel, posted,
                   config, env, page, now, netType, saveData, queue, processing, processed,
                   activeRequests, isInitialized, isPaused, dataUsed, connectionInfo,
                   cacheAPI, cache, timers, starts, listeners, hoverTimeouts, clears,
                   rebuilds, stats, hist>>

\* what fetchAndCache does after storeInCache returned
Cached(f) ==
    [DrainState EXCEPT
        !.stats.cacheMisses = @ + 1,
        !.stats.bytesTransferred = @ + (IF f.len # NoLen THEN f.len ELSE 0)]

\* await this.cacheAPI.put(url, modifiedResponse) resolves
StorePut(f) ==
    /\ f.stage = "put"
    /\ store' = CachePut(store, f.url, f.ts)
    /\ Finally(f, Cached(f))
    /\ posted' = Post(Message("cache-update", f.url))
    /\ UNCHANGED <<clicking, hoverTimers, hints, ssrHintsReceived, broadcastChannel,
                   config, env, page, now, netType, saveData, isInitialized, isPaused,
                   dataUsed, connectionInfo, cacheAPI, cache, starts, listeners,
                   hoverTimeouts, clears, rebuilds>>

\* await response.text() resolves and the entry is set in the memory Map
StoreText(f) ==
    /\ f.stage = "text"
    /\ cache' = MapSet(cache, f.url, f.ts)
    /\ Finally(f, Cached(f))
    /\ posted' = Post(Message("cache-update", f.url))
    /\ UNCHANGED <<clicking, hoverTimers, hints, ssrHintsReceived, broadcastChannel,
                   config, env, page, now, netType, saveData, isInitialized, isPaused,
                   dataUsed, connectionInfo, cacheAPI, store, starts, listeners,
                   hoverTimeouts, clears, rebuilds>>

----------------------------------------------------------------------------
(* Hover listeners *)

\* the mouseenter listener's test on the element
Hoverable(el) ==
    LET href == NormalizeUrl(el.href) IN
    href # NullUrl /\ ShouldPreload(href) /\ ~ShouldExclude(el, href)

\* the mouseenter listener without its clearTimeout
MouseEnterNoClear(e) ==
    /\ listeners > 0
    /\ config.instantHover
    /\ Hoverable(page[e])
    /\ hoverTimeouts \subseteq {e}
    /\ hoverTimers' = With(hoverTimers, e)
    /\ hoverTimeouts' = hoverTimeouts \cup {e}
    /\ UNCHANGED <<clicking, hints, ssrHintsReceived, broadcastChannel, posted,
                   config, env, page, now, netType, saveData, queue, processing, processed,
                   activeRequests, isInitialized, isPaused, dataUsed, connectionInfo,
                   cacheAPI, cache, store, fetches, timers, starts, listeners, clears,
                   rebuilds, stats, hist>>

\* a mouseenter listener runs on element e (the pointer is over one element at a
\* time): the timer the Map holds for e is cleared, a new one is set and stored
MouseEnter(e) ==
    /\ listeners > 0
    /\ config.instantHover
    /\ Hoverable(page[e])
    /\ hoverTimeouts \subseteq {e}
    /\ hoverTimers' = With(IF e \in hoverTimeouts THEN Without(hoverTimers, e)
                                                  ELSE hoverTimers, e)
    /\ hoverTimeouts' = hoverTimeouts \cup {e}
    /\ UNCHANGED <<clicking, hints, ssrHintsReceived, broadcastChannel, posted,
                   config, env, page, now, netType, saveData, queue, processing, processed,
                   activeRequests, isInitialized, isPaused, dataUsed, connectionInfo,
                   cacheAPI, cache, store, fetches, timers, starts, listeners, clears,
                   rebuilds, stats, hist>>

\* a mouseleave listener runs on element e: the timer the Map holds is cleared
MouseLeave(e) ==
    /\ listeners > 0
    /\ e \in hoverTimeouts
    /\ hoverTimers' = Without(hoverTimers, e)
    /\ hoverTimeouts' = hoverTimeouts \ {e}
    /\ UNCHANGED <<clicking, hints, ssrHintsReceived, broadcastChannel, posted,
                   config, env, page, now, netType, saveData, queue, processing, processed,
                   activeRequests, isInitialized, isPaused, dataUsed, connectionInfo,
                   cacheAPI, cache, store, fetches, timers, starts, listeners, clears,
                   rebuilds, stats, hist>>

\* a pending hover timer of element e fires after hoverDelay: boostPriority(href),
\* then the Map entry goes
HoverFire(e) ==
    LET href == NormalizeUrl(page[e].href) IN
    /\ CopiesIn(e, hoverTimers) > 0
    /\ hoverTimers' = Without(hoverTimers, e)
    /\ hoverTimeouts' = hoverTimeouts \ {e}
    /\ IF BoostDrains(queue, href)
       THEN Drained(ProcessQueue([DrainState EXCEPT !.q = BoostPriority(queue, href)]))
       ELSE /\ queue' = BoostPriority(queue, href)
            /\ UNCHANGED <<processing, activeRequests, fetches, stats, hist>>
    /\ UNCHANGED <<clicking, hints, ssrHintsReceived, broadcastChannel, posted,
                   config, env, page, now, netType, saveData, processed, isInitialized,
                   isPaused, dataUsed, connectionInfo, cacheAPI, cache, store, timers,
                   starts, listeners, clears, rebuilds>>

----------------------------------------------------------------------------
(* Cross-tab channel *)

\* the message listener receives a cache-update for `url` from a sibling tab
ReceiveCacheUpdate(url) ==
    /\ broadcastChannel = "open"
    /\ processed' = processed \cup {url}
    /\ hist' = [hist EXCEPT !.updated = @ \cup {url}]
    /\ UNCHANGED <<clicking, hoverTimers, hints, ssrHintsReceived, broadcastChannel, posted,
                   config, env, page, now, netType, saveData, queue, processing,
                   activeRequests, isInitialized, isPaused, dataUsed, connectionInfo,
                   cacheAPI, cache, store, fetches, timers, starts, listeners,
                   hoverTimeouts, clears, rebuilds, stats>>

\* invalidateCache(url): the entry is deleted from the active backend; nothing is
\* posted on the channel
InvalidateCache(url) ==
    /\ IF cacheAPI
       THEN /\ store' = CacheDelete(store, url)
            /\ UNCHANGED cache
       ELSE /\ cache' = CacheDelete(cache, url)
            /\ UNCHANGED store
    /\ UNCHANGED <<clicking, hoverTimers, hints, ssrHintsReceived, broadcastChannel, posted,
                   config, env, page, now, netType, saveData, queue, processing,
                   processed, activeRequests, isInitialized, isPaused, dataUsed,
                   connectionInfo, cacheAPI, fetches, timers, starts, listeners,
                   hoverTimeouts, clears, rebuilds, stats, hist>>

\* the message listener receives a cache-invalidate for `url` from a sibling tab
ReceiveCacheInvalidate(url) ==
    /\ broadcastChannel = "open"
    /\ InvalidateCache(url)

\* enforceCacheLimit() called on the instance while the memory Map is the backend
EnforceCacheLimit ==
    /\ ~cacheAPI
    /\ cache' = EnforceMemoryLimit(cache, config.cacheMaxSize)
    /\ UNCHANGED <<clicking, hoverTimers, hints, ssrHintsReceived, broadcastChannel, posted,
                   config, env, page, now, netType, saveData, queue, processing,
                   processed, activeRequests, isInitialized, isPaused, dataUsed,
                   connectionInfo, cacheAPI, store, fetches, timers, starts, listeners,
                   hoverTimeouts, clears, rebuilds, stats, hist>>

----------------------------------------------------------------------------
(* Public controls *)

\* the synchronous tail of clearCache()
ClearState ==
    /\ cache' = <<>>
    /\ processed' = {}
    /\ processing' = {}
    /\ queue' = <<>>
    /\ dataUsed' = 0

\* clearCache() with the memory backend: it runs to its end without suspending
ClearCacheMemory ==
    /\ ~cacheAPI
    /\ hist.clearCalls < MaxClears
    /\ hist' = [hist EXCEPT !.clearCalls = @ + 1,
                             !.sinceClear = [u \in Urls |-> 0]]
    /\ ClearState
    /\ posted' = Post(Message("cache-clear", NullUrl))
    /\ UNCHANGED <<clicking, hoverTimers, hints, ssrHintsReceived, broadcastChannel,
                   config, env, page, now, netType, saveData, activeRequests,
                   isInitialized, isPaused, connectionInfo, cacheAPI, store, fetches,
                   timers, starts, listeners, hoverTimeouts, clears, rebuilds, stats>>

\* clearCache() with the Cache API: up to await this.cacheAPI.keys()
ClearCacheCall ==
    /\ cacheAPI
    /\ hist.clearCalls < MaxClears
    /\ hist' = [hist EXCEPT !.clearCalls = @ + 1]
    /\ clears' = Append(clears, [stage |-> "keys", keys |-> {}])
    /\ UNCHANGED <<clicking, hoverTimers, hints, ssrHintsReceived, broadcastChannel, posted,
                   config, env, page, now, netType, saveData, queue, processing, processed,
                   activeRequests, isInitialized, isPaused, dataUsed, connectionInfo,
                   cacheAPI, cache, store, fetches, timers, starts, listeners,
                   hoverTimeouts, rebuilds, stats>>

\* clearCache() resumes with the keys and issues the deletes
ClearCacheKeys(i) ==
    /\ clears[i].stage = "keys"
    /\ clears' = [clears EXCEPT ![i] = [stage |-> "delete",
                                        keys |-> {e.url : e \in Range(store)}]]
    /\ UNCHANGED <<clicking, hoverTimers, hints, ssrHintsReceived, broadcastChannel, posted,
                   config, env, page, now, netType, saveData, queue, processing, processed,
                   activeRequests, isInitialized, isPaused, dataUsed, connectionInfo,
                   cacheAPI, cache, store, fetches, timers, starts, listeners,
                   hoverTimeouts, rebuilds, stats, hist>>

\* the deletes resolve and clearCache() runs to its end
ClearCacheDone(i) ==
    /\ clears[i].stage = "delete"
    /\ clears' = RemoveAt(clears, i)
    /\ store' = CacheDeleteAll(store, clears[i].keys)
    /\ ClearState
    /\ posted' = Post(Message("cache-clear", NullUrl))
    /\ hist' = [hist EXCEPT !.sinceClear = [u \in Urls |-> 0]]
    /\ UNCHANGED <<clicking, hoverTimers, hints, ssrHintsReceived, broadcastChannel,
                   config, env, page, now, netType, saveData, activeRequests,
                   isInitialized, isPaused, connectionInfo, cacheAPI, fetches, timers,
                   starts, listeners, hoverTimeouts, rebuilds, stats>>

\* pause()
Pause ==
    /\ ~isPaused
    /\ isPaused' = TRUE
    /\ UNCHANGED <<clicking, hoverTimers, hints, ssrHintsReceived, broadcastChannel, posted,
                   config, env, page, now, netType, saveData, queue, processing, processed,
                   activeRequests, isInitialized, dataUsed, connectionInfo, cacheAPI,
                   cache, store, fetches, timers, starts, listeners, hoverTimeouts,
                   clears, rebuilds, stats, hist>>

\* resume()
Resume ==
    /\ isPaused' = FALSE
    /\ Drained(ProcessQueue(DrainState))
    /\ UNCHANGED <<clicking, hoverTimers, hints, ssrHintsReceived, broadcastChannel, posted,
                   config, env, page, now, netType, saveData, processed, isInitialized,
                   dataUsed, connectionInfo, cacheAPI, cache, store, timers, starts,
                   listeners, hoverTimeouts, clears, rebuilds>>

\* destroy(): the hover timers are cleared, the channel is closed and clearCache()
\* is called without being awaited (its post on the closed channel throws and is
\* caught)
Destroy ==
    /\ ~hist.destroyed
    /\ hoverTimers' = EmptyBag
    /\ hoverTimeouts' = {}
    /\ broadcastChannel' = IF broadcastChannel = "none" THEN "none" ELSE "closed"
    /\ IF cacheAPI
       THEN /\ clears' = Append(clears, [stage |-> "keys", keys |-> {}])
            /\ hist' = [hist EXCEPT !.destroyed = TRUE]
            /\ UNCHANGED <<cache, processed, processing, queue, dataUsed>>
       ELSE /\ ClearState
            /\ hist' = [hist EXCEPT !.destroyed = TRUE,
                                     !.sinceClear = [u \in Urls |-> 0]]
            /\ UNCHANGED clears
    /\ UNCHANGED <<clicking, hints, ssrHintsReceived, posted, config, env, page, now, netType,
                   saveData, activeRequests, isInitialized, isPaused, connectionInfo,
                   cacheAPI, store, fetches, timers, starts, listeners, rebuilds, stats>>

----------------------------------------------------------------------------
(* The environment *)

\* navigator.connection changes its effective type
ConnectionChange(type) ==
    /\ env.hasConnection
    /\ type # netType
    /\ netType' = type
    /\ UNCHANGED <<clicking, hoverTimers, hints, ssrHintsReceived, broadcastChannel, posted,
                   config, env, page, now, saveData, queue, processing, processed,
                   activeRequests, isInitialized, isPaused, dataUsed, connectionInfo,
                   cacheAPI, cache, store, fetches, timers, starts, listeners,
                   hoverTimeouts, clears, rebuilds, stats, hist>>

\* time passes
Tick ==
    /\ now < MaxNow
    /\ now' = now + 1
    /\ UNCHANGED <<clicking, hoverTimers, hints, ssrHintsReceived, broadcastChannel, posted,
                   config, env, page, netType, saveData, queue, processing, processed,
                   activeRequests, isInitialized, isPaused, dataUsed, connectionInfo,
                   cacheAPI, cache, store, fetches, timers, starts, listeners,
                   hoverTimeouts, clears, rebuilds, stats, hist>>

----------------------------------------------------------------------------
(* Instant transitions *)

\* the click listener finds a fresh entry for the element's URL
Transitions(el) ==
    LET href == NormalizeUrl(el.href) IN
    /\ href # NullUrl
    /\ ~ShouldExclude(el, href)
    /\ FreshInCache(href)

\* a click on element e, the listener's run taken as one step: it swaps the document
\* from the cache and sets the timer that rebuilds the queue (the page swapped in
\* carries the same links)
Click(e) ==
    /\ listeners > 0
    /\ config.instantTransitions
    /\ hist.clicks < MaxClicks
    /\ Transitions(page[e])
    /\ rebuilds' = rebuilds + 1
    /\ hist' = [hist EXCEPT !.clicks = @ + 1]
    /\ UNCHANGED <<clicking, hoverTimers, hints, ssrHintsReceived, broadcastChannel, posted,
                   config, env, page, now, netType, saveData, queue, processing, processed,
                   activeRequests, isInitialized, isPaused, dataUsed, connectionInfo,
                   cacheAPI, cache, store, fetches, timers, starts, listeners,
                   hoverTimeouts, clears, stats>>

\* a run of the click listener on element e, suspended at `stage`
ClickRun(e, stage) ==
    [e |-> e, stage |-> stage, prevented |-> FALSE, swapped |-> FALSE, pushed |-> FALSE,
     navigated |-> FALSE]

ClickFrame ==
    UNCHANGED <<hoverTimers, hints, ssrHintsReceived, broadcastChannel, posted,
                config, env, page, now, netType, saveData, queue, processing, processed,
                activeRequests, isInitialized, isPaused, dataUsed, connectionInfo,
                cacheAPI, cache, store, fetches, timers, starts, listeners,
                hoverTimeouts, clears, stats, hist>>

\* a click on element e, whose href parses: the listener runs to await isInCache(href)
ClickDispatch(e) ==
    /\ listeners > 0
    /\ config.instantTransitions
    /\ Len(clicking) < MaxClicks
    /\ NormalizeUrl(page[e].href) # NullUrl
    /\ clicking' = Append(clicking, ClickRun(e, "inCache"))
    /\ UNCHANGED rebuilds
    /\ ClickFrame

\* the listener resumes after await this.isInCache(href) and tests shouldExclude
ClickInCache(k) ==
    LET el == page[clicking[k].e] IN
    /\ clicking[k].stage = "inCache"
    /\ clicking' = [clicking EXCEPT ![k].stage =
                        IF CacheHas(Backend, NormalizeUrl(el.href))
                           /\ ~ShouldExclude(el, NormalizeUrl(el.href))
                        THEN "response" ELSE "done"]
    /\ UNCHANGED rebuilds
    /\ ClickFrame

\* the resumption without the test of isCacheExpired
ClickResponseAnyAge(k) ==
    /\ clicking[k].stage = "response"
    /\ clicking' = IF CacheHas(Backend, NormalizeUrl(page[clicking[k].e].href))
                   THEN [clicking EXCEPT ![k].stage = "text", ![k].prevented = TRUE]
                   ELSE [clicking EXCEPT ![k].stage = "done"]
    /\ UNCHANGED rebuilds
    /\ ClickFrame

\* the listener resumes after await this.getCachedResponse(href); on a fresh entry
\* it calls event.preventDefault() and runs to await cachedResponse.text()
ClickResponse(k) ==
    /\ clicking[k].stage = "response"
    /\ clicking' = IF FreshInCache(NormalizeUrl(page[clicking[k].e].href))
                   THEN [clicking EXCEPT ![k].stage = "text", ![k].prevented = TRUE]
                   ELSE [clicking EXCEPT ![k].stage = "done"]
    /\ UNCHANGED rebuilds
    /\ ClickFrame

\* await cachedResponse.text() resolves; the document is parsed and swapped in, the
\* history entry is pushed and the rebuild timer is set
ClickSwapped(k) ==
    /\ clicking[k].stage = "text"
    /\ clicking' = [clicking EXCEPT ![k].stage = "done", ![k].swapped = TRUE,
                                    ![k].pushed = TRUE]
    /\ rebuilds' = rebuilds + 1
    /\ ClickFrame

\* text() rejects, or the parsing, the replacement of the content or pushState
\* throws, the content replaced already or not: the catch block sets
\* window.location.href
ClickFailed(k, replaced) ==
    /\ clicking[k].stage = "text"
    /\ clicking' = [clicking EXCEPT ![k].stage = "done", ![k].swapped = replaced,
                                    ![k].navigated = TRUE]
    /\ UNCHANGED rebuilds
    /\ ClickFrame

\* the transition's timer fires: buildQueue(), processQueue()
RebuildFire ==
    /\ rebuilds > 0
    /\ rebuilds' = rebuilds - 1
    /\ Drained(ProcessQueue([DrainState EXCEPT !.q = BuildQueue]))
    /\ UNCHANGED <<clicking, hoverTimers, hints, ssrHintsReceived, broadcastChannel, posted,
                   config, env, page, now, netType, saveData, processed, isInitialized,
                   isPaused, dataUsed, connectionInfo, cacheAPI, cache, store, timers,
                   starts, listeners, hoverTimeouts, clears>>

----------------------------------------------------------------------------
(* Specifications *)

Elements == 1..Len(page)

Calls == BagToSet(fetches)

\* start() as Ghostloader.init() calls it, through its awaits
StartSteps ==
    \/ StaticInit
    \/ \E i \in 1..Len(starts) : StartDetected(i)
    \/ \E i \in 1..Len(starts) : StartCacheReady(i)
    \/ \E i \in 1..Len(starts) : StartDelayed(i)

\* the scheduler: drain passes and fetchAndCache up to the cache write, the OK
\* responses carrying one of the given content-length values
FetchStepsWith(lens) ==
    \/ \E f \in Calls : DelayDone(f)
    \/ TimerFire
    \/ \E f \in Calls : Lookup(f)
    \/ \E f \in Calls, len \in lens : NetworkOk(f, len)
    \/ \E f \in Calls : NetworkFail(f)

FetchSteps == FetchStepsWith(Lens)

\* storeInCache on the memory Map
MemorySteps ==
    \E f \in Calls : StoreText(f)

\* storeInCache on the Cache API
CacheAPISteps ==
    \/ \E f \in Calls : StoreKeys(f)
    \/ \E f \in Calls : StoreDelete(f)
    \/ \E f \in Calls : StorePut(f)

HoverSteps ==
    \/ \E e \in Elements : MouseEnter(e)
    \/ \E e \in Elements : MouseLeave(e)
    \/ \E e \in Elements : HoverFire(e)

TransitionSteps ==
    \/ \E e \in Elements : Click(e)
    \/ RebuildFire

\* the browser has no Cache API: the memory Map is the backend
MemoryInit(pg) ==
    /\ Constructed(DefaultConfig, pg)
    /\ env = [hasConnection |-> TRUE, hasCaches |-> FALSE, hasBroadcast |-> FALSE]
    /\ hints = NoHints
    /\ netType = "4g"
    /\ saveData = FALSE
    /\ store = <<>>

\* The scheduler under hover boosts, clearCache(), pause()/resume() and changes of
\* the connection type: one instance started by Ghostloader.init() on the main page.
Init == MemoryInit(MainPage)

Next ==
    \/ StartSteps
    \/ FetchSteps
    \/ MemorySteps
    \/ HoverSteps
    \/ ClearCacheMemory
    \/ Pause
    \/ Resume
    \/ \E type \in NetTypes : ConnectionChange(type)

Spec == Init /\ [][Next]_vars

\* The scheduler when the queue is rebuilt after an instant transition, under hover
\* boosts and clearCache().
RebuildNext ==
    \/ StartSteps
    \/ FetchSteps
    \/ MemorySteps
    \/ HoverSteps
    \/ ClearCacheMemory
    \/ TransitionSteps

RebuildInit == MemoryInit(PlainPage)

SpecRebuild == RebuildInit /\ [][RebuildNext]_vars

\* start() is called a second time while the first call may still be suspended.
StartNext ==
    \/ StartSteps
    \/ StartAgain
    \/ FetchSteps
    \/ MemorySteps

SpecStart == RebuildInit /\ [][StartNext]_vars

\* The scenario of five links and three slots, on a connection that does not
\* throttle and with a data limit and a cache size that are not reached.
ScenarioInit ==
    /\ Constructed(ConfigWith(ScenarioMaxConcurrent, 4 * ScenarioLinks, 2 * ScenarioLinks),
                   LinksPage(ScenarioLinks))
    /\ env = [hasConnection |-> TRUE, hasCaches |-> FALSE, hasBroadcast |-> FALSE]
    /\ hints = NoHints
    /\ netType = "4g"
    /\ saveData = FALSE
    /\ store = <<>>

ScenarioNext ==
    \/ StartSteps
    \/ FetchStepsWith({2})
    \/ MemorySteps
    \/ HoverSteps

SpecScenario == ScenarioInit /\ [][ScenarioNext]_vars

\* The data budget: with or without the network information API, with the data
\* saver on or off, and responses of several sizes.
DataInit ==
    /\ Constructed(DefaultConfig, PlainPage)
    /\ env \in [hasConnection : BOOLEAN, hasCaches : {FALSE}, hasBroadcast : {FALSE}]
    /\ hints = NoHints
    /\ netType = "4g"
    /\ saveData \in BOOLEAN
    /\ store = <<>>

DataNext ==
    \/ StartSteps
    \/ FetchStepsWith({NoLen, 1, 2, 5})
    \/ MemorySteps

SpecData == DataInit /\ [][DataNext]_vars

\* The cache across sessions: the Cache API store, where there is one, holds what
\* an earlier page load left in it, the clock runs, and clicks swap the document.
StoreInit ==
    /\ Constructed(ConfigWith(StoreMaxConcurrent, 4 * StoreLinks, StoreCacheMaxSize),
                   LinksPage(StoreLinks))
    /\ env \in [hasConnection : {TRUE}, hasCaches : BOOLEAN, hasBroadcast : {FALSE}]
    /\ hints = NoHints
    /\ netType = "4g"
    /\ saveData = FALSE
    /\ store = IF env.hasCaches
               THEN [i \in 1..StoreCacheMaxSize |->
                        Entry(NormalizeUrl(Href("self", LinkPaths[i], "")), 0)]
               ELSE <<>>

StoreNext ==
    \/ StartSteps
    \/ FetchStepsWith({2})
    \/ MemorySteps
    \/ CacheAPISteps
    \/ TransitionSteps
    \/ Tick

SpecStore == StoreInit /\ [][StoreNext]_vars

\* A page with SSR hints: a high-priority meta hint for a URL that is on no link,
\* that is the second link's or that is of another origin, and a normal-priority
\* one; resume() is called at any moment, also during the initial delay.
HintsInit ==
    /\ Constructed(DefaultConfig, LinksPage(HintLinks))
    /\ env = [hasConnection |-> TRUE, hasCaches |-> FALSE, hasBroadcast |-> FALSE]
    /\ \E raw \in {Href("self", "h", ""), Href("self", "b", ""), Href("other", "h", "")} :
           hints = [meta |-> <<MetaHint(raw, "high"),
                               MetaHint(Href("self", "g", ""), "normal")>>,
                    json |-> <<>>]
    /\ netType = "4g"
    /\ saveData = FALSE
    /\ store = <<>>

HintsNext ==
    \/ StartSteps
    \/ FetchSteps
    \/ MemorySteps
    \/ HoverSteps
    \/ Resume

SpecHints == HintsInit /\ [][HintsNext]_vars

\* No data budget at all: dataLimit is 0, with and without connectionAware, on a
\* page with links and a high-priority hint, under hover boosts and resume() calls.
BudgetInit ==
    /\ \E aware \in BOOLEAN :
           Constructed([ConfigWith(MainMaxConcurrent, 0, MainCacheMaxSize)
                            EXCEPT !.connectionAware = aware],
                       LinksPage(HintLinks))
    /\ env = [hasConnection |-> TRUE, hasCaches |-> FALSE, hasBroadcast |-> FALSE]
    /\ hints = [meta |-> <<MetaHint(Href("self", "h", ""), "high")>>, json |-> <<>>]
    /\ netType = "4g"
    /\ saveData = FALSE
    /\ store = <<>>

BudgetNext ==
    \/ StartSteps
    \/ FetchSteps
    \/ MemorySteps
    \/ HoverSteps
    \/ Resume

SpecBudget == BudgetInit /\ [][BudgetNext]_vars

\* One request at a time: maxConcurrent is 1, with and without bandwidthThrottle,
\* on a connection that changes its type.
ThrottleInit ==
    /\ \E throttle \in BOOLEAN :
           Constructed([ConfigWith(1, MainDataLimit, MainCacheMaxSize)
                            EXCEPT !.bandwidthThrottle = throttle],
                       PlainPage)
    /\ env = [hasConnection |-> TRUE, hasCaches |-> FALSE, hasBroadcast |-> FALSE]
    /\ hints = NoHints
    /\ netType \in NetTypes
    /\ saveData = FALSE
    /\ store = <<>>

ThrottleNext ==
    \/ StartSteps
    \/ FetchSteps
    \/ MemorySteps
    \/ \E type \in NetTypes : ConnectionChange(type)

SpecThrottle == ThrottleInit /\ [][ThrottleNext]_vars

\* clearCache() on either backend while fetches are in flight, the cross-tab
\* channel being open.
ClearInit ==
    /\ Constructed(DefaultConfig, PlainPage)
    /\ env \in [hasConnection : {TRUE}, hasCaches : BOOLEAN, hasBroadcast : {TRUE}]
    /\ hints = NoHints
    /\ netType = "4g"
    /\ saveData = FALSE
    /\ store = <<>>

ClearNext ==
    \/ StartSteps
    \/ FetchStepsWith({2})
    \/ MemorySteps
    \/ CacheAPISteps
    \/ ClearCacheMemory
    \/ ClearCacheCall
    \/ \E i \in 1..Len(clears) : ClearCacheKeys(i)
    \/ \E i \in 1..Len(clears) : ClearCacheDone(i)

SpecClear == ClearInit /\ [][ClearNext]_vars

\* destroy() at any moment: during start(), with fetches in flight, with the
\* pointer over a link.
DestroyNext ==
    \/ StartSteps
    \/ FetchSteps
    \/ MemorySteps
    \/ HoverSteps
    \/ Destroy

SpecDestroy == RebuildInit /\ [][DestroyNext]_vars

\* the URLs a sibling tab on the same page caches and announces
TabUrls == {NormalizeUrl(page[e].href) : e \in Elements}

\* A sibling tab: the channel exists and cache-update messages arrive at any
\* moment from start() on, under hover boosts and clearCache().
TabsInit ==
    /\ Constructed(DefaultConfig, LinksPage(HintLinks))
    /\ env = [hasConnection |-> TRUE, hasCaches |-> FALSE, hasBroadcast |-> TRUE]
    /\ hints = NoHints
    /\ netType = "4g"
    /\ saveData = FALSE
    /\ store = <<>>

TabsNext ==
    \/ StartSteps
    \/ FetchStepsWith({2})
    \/ MemorySteps
    \/ HoverSteps
    \/ \E u \in TabUrls : ReceiveCacheUpdate(u)
    \/ ClearCacheMemory

SpecTabs == TabsInit /\ [][TabsNext]_vars

\* Invalidation: the channel exists, the page calls invalidateCache(url) and
\* sibling tabs send cache-invalidate messages at any moment.
InvalidateInit ==
    /\ Constructed(DefaultConfig, LinksPage(HintLinks))
    /\ env = [hasConnection |-> TRUE, hasCaches |-> FALSE, hasBroadcast |-> TRUE]
    /\ hints = NoHints
    /\ netType = "4g"
    /\ saveData = FALSE
    /\ store = <<>>

InvalidateNext ==
    \/ StartSteps
    \/ FetchStepsWith({2})
    \/ MemorySteps
    \/ \E u \in TabUrls : InvalidateCache(u)
    \/ \E u \in TabUrls : ReceiveCacheInvalidate(u)

SpecInvalidate == InvalidateInit /\ [][InvalidateNext]_vars

\* Hovering: the pointer enters and leaves the links of the main page, two of
\* which are of another origin and excluded, while the queue drains.
HoverInit == MemoryInit(MainPage)

HoverNext ==
    \/ StartSteps
    \/ FetchStepsWith({2})
    \/ MemorySteps
    \/ HoverSteps

SpecHover == HoverInit /\ [][HoverNext]_vars

\* The queue builder: start(), called once or twice, builds the queue from a
\* page of links of every kind, with connectionAware on or off and a data
\* limit that two responses reach.
BuildInit ==
    /\ \E aware \in BOOLEAN :
           Constructed([ConfigWith(BuildMaxConcurrent, BuildDataLimit, MainCacheMaxSize)
                            EXCEPT !.connectionAware = aware],
                       BuildPage)
    /\ env = [hasConnection |-> TRUE, hasCaches |-> FALSE, hasBroadcast |-> FALSE]
    /\ hints = NoHints
    /\ netType = "4g"
    /\ saveData = FALSE
    /\ store = <<>>

BuildNext ==
    \/ StartSteps
    \/ StartAgain
    \/ FetchStepsWith({2})
    \/ MemorySteps

SpecBuild == BuildInit /\ [][BuildNext]_vars

\* the URLs of the entries of the eviction scenario
EvictUrls ==
    [i \in 1..(EvictLen + 1) |->
        IF i <= Len(LinkPaths) THEN NormalizeUrl(Href("self", LinkPaths[i], ""))
        ELSE NormalizeUrl(Href("other", LinkPaths[i - Len(LinkPaths)], ""))]

\* the cacheMaxSize values of the eviction scenario: below and above the number
\* of entries removed at a time
EvictSizes == {1, EvictExtra + 1, EvictLen + 1}

\* Eviction: the memory Map holds up to EvictLen entries with timestamps in any
\* order, cacheMaxSize is one of EvictSizes, and enforceCacheLimit() runs.
EvictInit ==
    /\ \E m \in EvictSizes, n \in 0..EvictLen : \E ts \in [1..n -> 0..EvictStamps] :
           Filled(ConfigWith(MainMaxConcurrent, MainDataLimit, m), PlainPage,
                  [i \in 1..n |-> Entry(EvictUrls[i], ts[i])])
    /\ env = [hasConnection |-> TRUE, hasCaches |-> FALSE, hasBroadcast |-> FALSE]
    /\ hints = NoHints
    /\ netType = "4g"
    /\ saveData = FALSE
    /\ store = <<>>

EvictNext == EnforceCacheLimit

SpecEvict == EvictInit /\ [][EvictNext]_vars

\* Cache hits across tabs: the Cache API store holds the first link's page from
\* an earlier session, the channel is open, and the clock runs past the expiry.
HitInit ==
    /\ Constructed(ConfigWith(StoreMaxConcurrent, 4 * StoreLinks, StoreCacheMaxSize),
                   LinksPage(StoreLinks))
    /\ env = [hasConnection |-> TRUE, hasCaches |-> TRUE, hasBroadcast |-> TRUE]
    /\ hints = NoHints
    /\ netType = "4g"
    /\ saveData = FALSE
    /\ store = <<Entry(NormalizeUrl(Href("self", LinkPaths[1], "")), 0)>>

HitNext ==
    \/ StartSteps
    \/ FetchStepsWith({2})
    \/ CacheAPISteps
    \/ Tick

SpecHit == HitInit /\ [][HitNext]_vars

\* the click listener through its awaits
ClickSteps ==
    \/ \E e \in Elements : ClickDispatch(e)
    \/ \E k \in 1..Len(clicking) : ClickInCache(k)
    \/ \E k \in 1..Len(clicking) : ClickResponse(k)
    \/ \E k \in 1..Len(clicking) : ClickSwapped(k)
    \/ \E k \in 1..Len(clicking) : \E replaced \in BOOLEAN : ClickFailed(k, replaced)
    \/ RebuildFire

\* Clicks: the user clicks a link at any moment from start() on, on either
\* backend, while pages are fetched and stored and the clock runs past the expiry.
ClickInit ==
    /\ Constructed(ConfigWith(MainMaxConcurrent, 4 * StoreLinks, StoreCacheMaxSize),
                   ClickPage)
    /\ env \in [hasConnection : {TRUE}, hasCaches : BOOLEAN, hasBroadcast : {FALSE}]
    /\ hints = NoHints
    /\ netType = "4g"
    /\ saveData = FALSE
    /\ store = IF env.hasCaches
               THEN <<Entry(NormalizeUrl(Href("self", LinkPaths[1], "")), 0)>>
               ELSE <<>>

ClickNext ==
    \/ StartSteps
    \/ FetchStepsWith({2})
    \/ MemorySteps
    \/ CacheAPISteps
    \/ ClickSteps
    \/ Tick

SpecClick == ClickInit /\ [][ClickNext]_vars

\* Draining: the main page, a data limit that is not reached and the default cap
\* of two, under hover boosts.  Timers fire, delays end, cache reads and writes
\* resolve and every fetch settles (response, error or abort after
\* requestTimeout): each of these steps is taken if it stays enabled.
LiveInit ==
    /\ Constructed(ConfigWith(MainMaxConcurrent, 4 * ScenarioLinks, MainCacheMaxSize),
                   MainPage)
    /\ env = [hasConnection |-> TRUE, hasCaches |-> FALSE, hasBroadcast |-> FALSE]
    /\ hints = NoHints
    /\ netType = "4g"
    /\ saveData = FALSE
    /\ store = <<>>

LiveNext ==
    \/ StartSteps
    \/ FetchStepsWith({NoLen, 2})
    \/ MemorySteps
    \/ HoverSteps

\* a fetch settles
Settles == \E f \in Calls : NetworkFail(f) \/ \E len \in {NoLen, 2} : NetworkOk(f, len)

\* the scheduling of the drain timers, the delays and the completions is fair;
\* nothing is assumed about when start() gets through its awaits
Fairness ==
    /\ WF_vars(TimerFire)
    /\ WF_vars(\E f \in Calls : DelayDone(f))
    /\ WF_vars(\E f \in Calls : Lookup(f))
    /\ WF_vars(Settles)
    /\ WF_vars(MemorySteps)

SpecLive == LiveInit /\ [][LiveNext]_vars /\ Fairness

----------------------------------------------------------------------------
(* Properties *)

\* the number of entries in the backend in use
BackendCount == Len(Backend)

\* C1 as stated: in every reachable state activeRequests is at most the value
\* getEffectiveMaxConcurrent() returns in that state.
C1_ActiveWithinCap == activeRequests <= GetEffectiveMaxConcurrent

\* C1, amended: a step that raises activeRequests leaves it at most the effective
\* cap of the state it reaches, and every step that is not a change of the connection
\* type keeps activeRequests at most the cap once it is.
C1_DispatchWithinCap ==
    [][/\ (activeRequests' > activeRequests
              => activeRequests' <= GetEffectiveMaxConcurrent')
       /\ (netType' = netType /\ activeRequests <= GetEffectiveMaxConcurrent
              => activeRequests' <= GetEffectiveMaxConcurrent')]_vars

\* C1 witness: on a 2g connection the single slot is taken, requests completed
\* before, and the rest of the queue waits.
C1_Witness ==
    /\ connectionInfo
    /\ netType = "2g"
    /\ activeRequests = GetEffectiveMaxConcurrent
    /\ processed # {}
    /\ Len(queue) > 0

\* C2 as stated: within one session no URL is dispatched more than once.
C2_AtMostOnce == \A u \in Urls : hist.dispatched[u] <= 1

\* C2, amended: between two clearCache() calls (and before the first) no URL is
\* dispatched more than once, and a dispatched URL stays in the processing or the
\* processed set until clearCache() empties them.
C2_OncePerClear ==
    \A u \in Urls :
        /\ hist.sinceClear[u] <= 1
        /\ hist.sinceClear[u] = 1 => u \in processing \cup processed

\* C2 witness: after a clearCache() the rebuilt queue has dispatched a URL a second
\* time.
C2_Witness ==
    \E u \in Urls :
        /\ hist.dispatched[u] = 2
        /\ hist.sinceClear[u] = 1
        /\ hist.clearCalls = 1

\* C3 as stated: the backend never holds more than cacheMaxSize entries (the count
\* grows only by a completed insertion).
C3_CountWithinMax == BackendCount <= config.cacheMaxSize

\* C5 as stated: a step taken while the instance is paused, and which leaves it
\* paused, dispatches nothing.
C5_NoDispatchWhilePaused ==
    [][isPaused /\ isPaused' => hist'.dispatched = hist.dispatched]_vars

\* C6 (as stated): the startup sequence runs at most once, so the hover and
\* click listeners are attached at most once, even when start() is called a
\* second time while the first call is suspended at one of its awaits.
C6_StartupOnce == listeners <= 1

\* the URLs of the items of a queue
QueueUrls(q) == {q[i].url : i \in 1..Len(q)}

\* s is the tail end of t
IsSuffix(s, t) == Len(s) <= Len(t) /\ s = SubSeq(t, Len(t) - Len(s) + 1, Len(t))

\* C7: when the hover timer of a link fires and its URL is queued at a position
\* k past the front, the item is relocated to the front, the other items keep
\* their order and the relocation leaves the length unchanged; the drain pass
\* that follows only takes items off the front, and none when no slot is free.
C7_BoostRelocates ==
    [][\A e \in Elements :
          LET href == NormalizeUrl(page[e].href)
              at == {i \in 1..Len(queue) : queue[i].url = href}
              k == CHOOSE i \in at : \A j \in at : i <= j
              moved == <<queue[k]>> \o SubSeq(queue, 1, k - 1) \o SubSeq(queue, k + 1, Len(queue))
          IN  (HoverFire(e) /\ at # {} /\ k > 1)
                  => /\ Len(moved) = Len(queue)
                     /\ IsSuffix(queue', moved)
                     /\ activeRequests >= GetEffectiveMaxConcurrent => queue' = moved]_vars

\* a boost acted while every slot was taken: the queue holds an item in front of
\* one that the builder sorts before it
C7_Witness ==
    /\ activeRequests = GetEffectiveMaxConcurrent
    /\ Len(queue) >= 2
    /\ queue[1].priority > queue[2].priority

\* C9: withinDataLimits() is false exactly when the connection reports the
\* data-saver flag or dataUsed has reached dataLimit, the value equal to the
\* limit included.
C9_DataLimits ==
    WithinDataLimits <=> ~((connectionInfo /\ saveData) \/ dataUsed >= config.dataLimit)

\* the budget is spent to the byte, with no data saver
C9_Witness ==
    /\ dataUsed = config.dataLimit
    /\ ~(connectionInfo /\ saveData)
    /\ ~WithinDataLimits

\* no drain pass is suspended in its delay between two dispatches
NoPassSuspended == \A f \in Calls : f.stage # "delay"

\* C10: from n queued URLs and a cap c < n, as long as no request has completed,
\* at most c are in flight and the others are still queued; once the first drain
\* is through, exactly c are in flight and n - c are queued.
C10_FirstDrain ==
    (isInitialized /\ processed = {})
        => /\ activeRequests <= ScenarioMaxConcurrent
           /\ Cardinality(processing) = activeRequests
           /\ Len(queue) = ScenarioLinks - activeRequests
           /\ QueueUrls(queue) \cap processing = {}
           /\ NoPassSuspended => activeRequests = ScenarioMaxConcurrent

\* the first drain is through and nothing has completed
C10_Witness ==
    /\ isInitialized
    /\ processed = {}
    /\ NoPassSuspended
    /\ activeRequests = ScenarioMaxConcurrent
    /\ Len(queue) = ScenarioLinks - ScenarioMaxConcurrent

\* C4 (as stated): the backend never holds more than cacheMaxSize + 10 - 1
\* entries, and holds at most cacheMaxSize right after an eviction pass of
\* enforceCacheLimit (the deletes of the Cache API pass resolving, or the
\* memory pass removing entries).
C4_CountBound ==
    [][/\ BackendCount' <= config.cacheMaxSize + EvictExtra - 1
       /\ \A f \in Calls :
              (f.stage = "delete" /\ StoreDelete(f)) => Len(store') <= config.cacheMaxSize
       /\ (~cacheAPI /\ Len(cache') < Len(cache)) => Len(cache') <= config.cacheMaxSize]_vars

\* the backend holds an entry for the URL that is older than cacheExpiration
Stale(url) ==
    \E i \in 1..Len(Backend) :
        Backend[i].url = url /\ now - Backend[i].ts > config.cacheExpiration

\* C8: an entry older than cacheExpiration is a miss although it is still in the
\* backend: the lookup of fetchAndCache counts no cache hit and goes on to the
\* network fetch, and a click on a link to it performs no instant transition.
C8_ExpiredIsMiss ==
    [][/\ \A f \in Calls :
              (f.stage = "lookup" /\ Lookup(f) /\ Stale(f.url))
                  => /\ stats'.cacheHits = stats.cacheHits
                     /\ f.url \notin processed'
                     /\ [f EXCEPT !.stage = "network"] \in BagToSet(fetches')
       /\ \A e \in Elements : Click(e) => ~Stale(NormalizeUrl(page[e].href))]_vars

\* a call is out on the network for a URL whose old entry is still in the backend
C8_Witness ==
    \E f \in Calls :
        /\ f.stage = "network"
        /\ Stale(f.url)
        /\ CacheHas(Backend, f.url)
        /\ stats.cacheHits = 0

\* the URLs of the document's high-priority meta hints
HighHinted == {NormalizeUrl(hints.meta[i].url) :
                  i \in {j \in 1..Len(hints.meta) : hints.meta[j].priority = "high"}}

\* C11 (as stated): once start() has built the queue, the URL of a high-priority
\* meta hint taken in before the build is still queued, at position 0, unless it
\* was dispatched from there already.
C11_HintKept ==
    isInitialized =>
        \A u \in HighHinted :
            \/ u \in processing \cup processed
            \/ (queue # <<>> /\ queue[1].url = u)

\* nothing was ever dispatched or fetched
NothingDispatched ==
    /\ \A u \in Urls : hist.dispatched[u] = 0
    /\ fetches = EmptyBag
    /\ stats.totalRequests = 0

\* C12 (as stated): with dataLimit = 0 no fetch is ever dispatched.
C12_NoFetchAtZero == config.dataLimit = 0 => NothingDispatched

\* C12 (amended): with dataLimit = 0 and connectionAware on, no fetch is ever
\* dispatched, whatever links, hints, hover boosts and drain passes occur.
C12_NoFetchAtZeroAware ==
    (config.dataLimit = 0 /\ config.connectionAware) => NothingDispatched

\* start() is through on the page with the hint and nothing is in flight
C12_Witness ==
    /\ config.dataLimit = 0
    /\ config.connectionAware
    /\ isInitialized
    /\ ssrHintsReceived # {}
    /\ hoverTimeouts # {}
    /\ NothingDispatched

\* C13 (as stated): activeRequests never exceeds the configured maxConcurrent,
\* on every connection type and with bandwidthThrottle on or off.
C13_ActiveWithinMax == activeRequests <= config.maxConcurrent

\* C14 (as stated): when clearCache() completes, the memory Map and the Cache API
\* store are empty, the queue, processing and processed are empty, dataUsed is
\* 0, and a cache-clear message has been posted if the channel is open.
C14_ClearedOnReturn ==
    [][(ClearCacheMemory \/ \E i \in 1..Len(clears) : ClearCacheDone(i))
          => /\ cache' = <<>>
             /\ store' = <<>>
             /\ queue' = <<>>
             /\ processing' = {}
             /\ processed' = {}
             /\ dataUsed' = 0
             /\ broadcastChannel = "open" => Message("cache-clear", NullUrl) \in posted']_vars

\* C15 (as stated): after destroy() no hover timer is pending and no fetch is
\* dispatched any more, whatever timers, completions and pending start() follow.
C15_StoppedAfterDestroy ==
    [][hist.destroyed => /\ hoverTimeouts' = {}
                         /\ hist'.dispatched = hist.dispatched]_vars

\* C16 (as stated): no URL is in the queue and in the processing set at the same
\* time, also on a page with two links to the same URL.
C16_QueueDisjointProcessing == QueueUrls(queue) \cap processing = {}

\* the queue is in ascending order of priority value
Sorted(q) == \A i, j \in 1..Len(q) : i < j => q[i].priority <= q[j].priority

\* the priority value of the queue item buildQueue makes for the URL
LinkPriority(u) ==
    LET tops == {page[e].top : e \in {d \in Elements : NormalizeUrl(page[d].href) = u}}
    IN  CHOOSE t \in tops : \A other \in tops : t <= other

Completes(f) ==
    /\ BagCardinality(fetches') < BagCardinality(fetches)
    /\ CopiesIn(f, fetches') < CopiesIn(f, fetches)

\* C18: when a dispatched fetch completes, whatever its outcome, its URL leaves
\* processing and joins processed, activeRequests goes down by exactly 1, the
\* queue is left as it is, and a drain timer is set if and only if the queue is
\* not empty.
C18_Completion ==
    [][\A f \in Calls :
          Completes(f)
              => /\ f.url \notin processing'
                 /\ processed' = processed \cup {f.url}
                 /\ activeRequests' = activeRequests - 1
                 /\ queue' = queue
                 /\ timers' = IF Len(queue) > 0 THEN timers + 1 ELSE timers]_vars

\* fetches have ended in a cache hit, in a cached response and in a failure
C18_Witness ==
    /\ stats.cacheHits >= 1
    /\ stats.cacheMisses >= 1
    /\ stats.totalRequests = StoreLinks
    /\ stats.cacheHits + stats.cacheMisses < StoreLinks
    /\ Cardinality(processed) = StoreLinks
    /\ activeRequests = 0

\* C19 (as stated): a step taken while the data budget is exhausted dispatches
\* nothing and loses no queued item: every item whose URL is neither in flight
\* nor done is still in the queue after it, the item the drain pass examined
\* included.
C19_NothingLost ==
    [][(config.connectionAware /\ ~WithinDataLimits)
          => /\ hist'.dispatched = hist.dispatched
             /\ \A i \in 1..Len(queue) :
                    queue[i].url \notin processing \cup processed
                        => queue[i].url \in QueueUrls(queue')]_vars

\* C20 (as stated): a cache-update message for a URL adds it to processed without
\* writing a cache entry, and from then on no fetch is dispatched for the URL.
C20_NeverAfterUpdate ==
    [][/\ \A u \in TabUrls :
              ReceiveCacheUpdate(u)
                  => u \in processed' /\ cache' = cache /\ store' = store
       /\ \A u \in hist.updated : hist'.dispatched[u] = hist.dispatched[u]]_vars

\* C20 (amended): a cache-update message for a URL adds it to processed without
\* writing a cache entry or touching the queue; the URL stays in processed until
\* clearCache() empties the set, and while it is there no fetch is dispatched
\* for it, also when it is in the queue.
C20_NotWhileProcessed ==
    [][/\ \A u \in TabUrls :
              ReceiveCacheUpdate(u)
                  => /\ processed' = processed \cup {u}
                     /\ cache' = cache /\ store' = store /\ queue' = queue
       /\ \A u \in hist.updated :
              u \in processed
                  => /\ hist'.dispatched[u] = hist.dispatched[u]
                     /\ ClearCacheMemory \/ u \in processed']_vars

\* the update for a URL arrived while the URL was waiting in the queue
C20_Witness ==
    \E u \in hist.updated :
        /\ hist.clearCalls = 0
        /\ hist.dispatched[u] = 0
        /\ u \in QueueUrls(queue)
        /\ u \in processed

\* C21 (as stated): every invalidateCache(url) that removes an entry while the
\* channel is open leaves a cache-invalidate message for that URL among the
\* posted messages.
C21_InvalidateBroadcasts ==
    [][\A u \in TabUrls :
          (InvalidateCache(u) /\ CacheHas(Backend, u) /\ broadcastChannel = "open")
              => Message("cache-invalidate", u) \in posted']_vars

\* C21, the parts about cache-update: a cache write posts cache-update for its
\* URL, a cache hit and a failed fetch post nothing
C21_UpdateOnWriteOnly ==
    [][\A f \in Calls :
          /\ (StoreText(f) \/ StorePut(f)) /\ broadcastChannel = "open"
                => posted' = posted \cup {Message("cache-update", f.url)}
          /\ (Lookup(f) \/ NetworkFail(f)) => posted' = posted]_vars

\* the number of queue items for `url`
Occurrences(q, url) == Cardinality({i \in DOMAIN q : q[i].url = url})

\* C22 (as stated): when start() takes in the SSR hints for the first time, every
\* URL named by a meta hint, of high or normal priority, or by a structured-data
\* hint is in the queue exactly once afterwards.
C22_EachHintOnce ==
    [][\A i \in 1..Len(starts) :
          (StartCacheReady(i) /\ config.ssrHints /\ ssrHintsReceived = {}
             /\ starts'[i] = "delay")
              => \A h \in Range(hints.meta) \cup Range(hints.json) :
                     Occurrences(queue', NormalizeUrl(h.url)) = 1]_vars

\* C23: every element has at most one boost timer pending, and has one exactly
\* when the Map holds a timeout for it; a mouseenter leaves exactly one timer
\* pending for its element, also when one was pending before; a mouseleave leaves
\* none, so that no boost follows that hover; and a timer fires, and boosts, only
\* for an element that the pointer entered and has not left since.
C23_HoverDebounce ==
    /\ [](\A e \in Elements :
            /\ CopiesIn(e, hoverTimers) <= 1
            /\ CopiesIn(e, hoverTimers) = 1 <=> e \in hoverTimeouts)
    /\ [][\A e \in Elements :
            /\ MouseEnter(e) => CopiesIn(e, hoverTimers') = 1
            /\ MouseLeave(e) => CopiesIn(e, hoverTimers') = 0
            /\ HoverFire(e) => e \in hoverTimeouts /\ e \notin hoverTimeouts']_vars

\* C23: a timer is pending for a hovered link after an earlier hover boosted a
\* URL past items of lower priority value
C23_Witness ==
    /\ \E e \in Elements : CopiesIn(e, hoverTimers) = 1
    /\ ~Sorted(queue)

\* C24: when the hover timer of a link fires and the link's URL is not in the
\* queue or is the head item's, boostPriority changes nothing: the queue, the
\* processing and processed sets, activeRequests, the calls in flight, the pending
\* drain timers and the counters stay as they are.  And no boost takes a call in
\* flight away or a URL out of the processing set.
C24_BoostNoOp ==
    [][\A e \in Elements :
          LET href == NormalizeUrl(page[e].href) IN
          HoverFire(e)
              => /\ (href \notin QueueUrls(queue) \/ (queue # <<>> /\ queue[1].url = href))
                      => /\ queue' = queue
                         /\ processing' = processing
                         /\ processed' = processed
                         /\ activeRequests' = activeRequests
                         /\ fetches' = fetches
                         /\ timers' = timers
                         /\ stats' = stats
                 /\ processing \subseteq processing'
                 /\ \A f \in BagToSet(fetches) : CopiesIn(f, fetches') >= CopiesIn(f, fetches)]_vars

\* C24: the hover timer of the link at the head of the queue is pending while a
\* slot is free
C24_Witness ==
    /\ queue # <<>>
    /\ activeRequests < GetEffectiveMaxConcurrent
    /\ \E e \in Elements :
           /\ CopiesIn(e, hoverTimers) = 1
           /\ queue[1].url = NormalizeUrl(page[e].href)

\* the queue items of the elements of the page that pass `ok`, in document order
DocItems(ok(_)) ==
    LET kept == SelectSeq(page, ok)
    IN  [i \in 1..Len(kept) |-> Item(NormalizeUrl(kept[i].href), kept[i].top)]

\* the items of q with priority value p, in the order of q
AtPriority(q, p) == SelectSeq(q, LAMBDA it : it.priority = p)

\* q holds the items of `items` and no others, one for one, in non-decreasing
\* priority, items of equal priority in the order of `items`
StableSortOf(q, items) ==
    /\ Len(q) = Len(items)
    /\ Sorted(q)
    /\ \A it \in Range(q) \cup Range(items) :
           AtPriority(q, it.priority) = AtPriority(items, it.priority)

\* the element passes every test of the builder but the one on the data budget
Queueable(el) ==
    /\ el.href.origin # "invalid"
    /\ NormalizeUrl(el.href) \notin processed \cup processing
    /\ ~ShouldExclude(el, NormalizeUrl(el.href))
    /\ ShouldPreload(NormalizeUrl(el.href))
    /\ el.top < InnerHeight /\ el.bottom > 0

\* C25 (as stated): the queue buildQueue builds holds exactly the queueable
\* visible elements scanned while the data budget was not exhausted, in
\* non-decreasing priority, ties in document order.
C25_BuiltWithinBudget ==
    StableSortOf(BuildQueue, DocItems(LAMBDA el : Queueable(el) /\ WithinDataLimits))

\* C25 (amended): the queue buildQueue builds holds exactly the queueable visible
\* elements scanned while connectionAware was off or the data budget was not
\* exhausted, one item per element, in non-decreasing priority, ties in document
\* order.
C25_Built ==
    StableSortOf(BuildQueue,
                 DocItems(LAMBDA el : Queueable(el)
                                        /\ (config.connectionAware => WithinDataLimits)))

\* C25: start() built the queue and dispatched its head; what is left is what
\* buildQueue builds now, and begins with two links of one line
C25_Witness ==
    /\ processing # {}
    /\ queue = BuildQueue
    /\ Len(queue) >= 3
    /\ queue[1].priority = queue[2].priority
    /\ queue[1].url # queue[2].url

\* the entries of cache c that cache d no longer holds
Evicted(c, d) == {e \in Range(c) : ~CacheHas(d, e.url)}

\* C26: enforceCacheLimit on a memory Map of c entries with maximum m evicts
\* nothing if c < m; if c >= m it evicts exactly min(c, c - m + 10) entries, each
\* with a timestamp no greater than that of any entry it keeps; the entries kept
\* stay as they were, in their order.
C26_EvictsOldest ==
    [][EnforceCacheLimit =>
          LET c == Len(cache)
              m == config.cacheMaxSize
              gone == Evicted(cache, cache')
          IN  /\ c < m => cache' = cache
              /\ c >= m => Cardinality(gone) = (IF c < c - m + 10 THEN c ELSE c - m + 10)
              /\ \A e \in gone, r \in Range(cache') : e.ts <= r.ts
              /\ cache' = SelectSeq(cache, LAMBDA e : e \notin gone)]_vars

\* C26: the eviction has kept the second entry inserted alone, having removed
\* the first and at least nine inserted after it
C26_Witness ==
    /\ config.cacheMaxSize > 10
    /\ Len(cache) = 1
    /\ cache[1].url = EvictUrls[2]

\* C27: when fetchAndCache finds an entry for its URL whose age is within
\* cacheExpiration, it counts one cache hit and nothing else: dataUsed,
\* bytesTransferred, cacheMisses, the memory Map and the Cache API store stay as
\* they are, no message is posted, and no call for the URL goes on to the network.
C27_HitFrame ==
    [][\A f \in Calls :
          (/\ Lookup(f)
           /\ \E i \in 1..Len(Backend) :
                  Backend[i].url = f.url /\ now - Backend[i].ts <= config.cacheExpiration)
              => /\ stats'.cacheHits = stats.cacheHits + 1
                 /\ stats'.cacheMisses = stats.cacheMisses
                 /\ stats'.bytesTransferred = stats.bytesTransferred
                 /\ dataUsed' = dataUsed
                 /\ cache' = cache
                 /\ store' = store
                 /\ posted' = posted
                 /\ \A g \in BagToSet(fetches') :
                        g.url = f.url => CopiesIn(g, fetches') <= CopiesIn(g, fetches)]_vars

\* C27: a hit was counted while the channel is open, and a miss on another URL
\* was stored and announced
C27_Witness ==
    /\ broadcastChannel = "open"
    /\ stats.cacheHits = 1
    /\ stats.cacheMisses >= 1
    /\ posted # {}

\* the backend holds an entry for the URL of element e, of an age within
\* cacheExpiration, and the element is not excluded
FreshAndAllowed(e) ==
    /\ \E i \in 1..Len(Backend) :
           /\ Backend[i].url = NormalizeUrl(page[e].href)
           /\ now - Backend[i].ts <= config.cacheExpiration
    /\ ~page[e].sel
    /\ NormalizeUrl(page[e].href).path # "f.pdf"

\* C28: a run of the click listener calls preventDefault only at a moment when
\* the backend holds an unexpired entry for the target URL and the link is not
\* excluded, and it replaces the content, pushes a history entry or sets the
\* location only after that call; a run that ends on an absent or expired entry
\* has not called preventDefault; and a run whose swap fails after the call sets
\* window.location to the target URL and pushes no history entry.
C28_ClickSwapsOnlyFresh ==
    /\ [](\A k \in 1..Len(clicking) :
            /\ (clicking[k].swapped \/ clicking[k].pushed \/ clicking[k].navigated)
                  => clicking[k].prevented
            /\ clicking[k].navigated => ~clicking[k].pushed)
    /\ [][\A k \in 1..Len(clicking) :
            /\ (clicking'[k].prevented /\ ~clicking[k].prevented)
                  => FreshAndAllowed(clicking[k].e)
            /\ ((ClickInCache(k) \/ ClickResponse(k)) /\ ~FreshAndAllowed(clicking[k].e))
                  => ~clicking'[k].prevented /\ clicking'[k].stage # "text"
            /\ (\E replaced \in BOOLEAN : ClickFailed(k, replaced))
                  => clicking[k].prevented /\ clicking'[k].navigated]_vars

\* C28: a click on a link with a stored page ended in a failed swap and a full
\* navigation, after the clock had passed the expiry of the session's first entry
C28_Witness ==
    /\ now > MainCacheExpiration
    /\ \E k \in 1..Len(clicking) :
           clicking[k].prevented /\ clicking[k].navigated /\ clicking[k].stage = "done"

\* C30 (as stated): in every reachable state activeRequests is non-negative and
\* equals the number of URLs in the processing set.
C30_ActiveCountsProcessing ==
    /\ activeRequests >= 0
    /\ activeRequests = Cardinality(processing)

\* nothing is queued, in flight or counted
Idle == queue = <<>> /\ activeRequests = 0 /\ processing = {}

\* C29: with a data budget that is not exhausted and a cap of at least 1, under
\* fair timers and completions, whenever the queue is non-empty or a request is
\* active the instance comes to a state where the queue is empty, activeRequests
\* is 0 and nothing is processing; and a URL leaves the processing set only into
\* the processed set, so that every URL that entered processing ends up processed.
C29_Drains ==
    /\ (Len(queue) > 0 \/ activeRequests > 0) ~> Idle
    /\ [][\A u \in processing : u \notin processing' => u \in processed']_vars

\* C29: everything queued has been fetched and the instance is idle
C29_Witness ==
    /\ Idle
    /\ fetches = EmptyBag
    /\ timers = 0
    /\ Cardinality(processed) = 3
    /\ stats.totalRequests = 3

\* C31 (as stated): in every reachable state no URL is both in the processing set
\* and in the processed set.
C31_ProcessingNotProcessed == processing \cap processed = {}

\* C32 (as stated): every URL for which a fetch was dispatched is of the page's
\* origin in local cache mode and matches no exclusion pattern.
C32_DispatchedPassFilters ==
    \A u \in Urls :
        hist.dispatched[u] > 0
            => /\ config.cacheMode = "local" => u.origin = "self"
               /\ u.path # "f.pdf"

\* C33: no step lowers totalRequests, cacheHits, cacheMisses or bytesTransferred,
\* a clearCache() step leaves all four as they are, and in every state cacheHits
\* plus cacheMisses is at most totalRequests.
C33_CountersGrow ==
    /\ [](stats.cacheHits + stats.cacheMisses <= stats.totalRequests)
    /\ [][/\ stats'.totalRequests >= stats.totalRequests
          /\ stats'.cacheHits >= stats.cacheHits
          /\ stats'.cacheMisses >= stats.cacheMisses
          /\ stats'.bytesTransferred >= stats.bytesTransferred
          /\ (ClearCacheMemory \/ ClearCacheCall
                \/ \E i \in 1..Len(clears) : ClearCacheKeys(i) \/ ClearCacheDone(i))
                => stats' = stats]_vars

\* C33: clearCache() has run and reset dataUsed, after responses were stored and
\* counted
C33_Witness ==
    /\ hist.clearCalls > 0
    /\ dataUsed = 0
    /\ stats.cacheMisses >= 1
    /\ stats.bytesTransferred >= 2
    /\ stats.totalRequests > stats.cacheMisses


============================================================================
